---- MODULE Spec2Model ----
(***************************************************************************)
(* Model of the diff-cut extraction engine (package parser, DiffCut) of    *)
(* gitness.  One DiffCut invocation is a sequential program over a line    *)
(* scanner; the model follows it loop iteration by loop iteration.  The    *)
(* lines of the stream are produced by the reader as they are scanned.     *)
(*                                                                         *)
(* A line is the sequence of its bytes.  The first byte of a content line  *)
(* is its diff action; the byte that follows is the line's text, chosen    *)
(* as the position of the line in the stream, so that no two lines of a    *)
(* stream are equal and a line of the result names one physical line.      *)
(***************************************************************************)
EXTENDS Integers, Sequences, FiniteSets

\* ------------------------------------------------------------------ bounds
\* the number of lines the header search discards at most
MaxDiscard == 1
\* the number of lines the stream holds at most after the hunk header
MaxContent == 3
\* LineStart and LineEnd range over 1..MaxLineNo
MaxLineNo == 2
\* BeforeLines ranges over 0..MaxBefore
MaxBefore == 2
\* AfterLines ranges over 0..MaxAfter
MaxAfter == 1
\* LineLimit ranges over 0..MaxLimit
MaxLimit == 1

\* ------------------------------------------------------- diff actions
actionUnchanged == 32
actionRemoved == 45
actionAdded == 43

Actions == {actionUnchanged, actionRemoved, actionAdded}

\* the number of lines of ls whose first byte is not '+', and not '-'
NonAdded(ls) == Cardinality({i \in 1..Len(ls) : ls[i][1] # actionAdded})
NonRemoved(ls) == Cardinality({i \in 1..Len(ls) : ls[i][1] # actionRemoved})

\* ------------------------------------------------------------- values
ErrNil == "nil"
ErrHunkNotFound == "ErrHunkNotFound"
ErrEOF == "io.EOF"
ErrRead == "ErrRead"

ZeroHeader == [OldLine |-> 0, OldSpan |-> 0, NewLine |-> 0, NewSpan |-> 0]
ZeroHunk == [HunkHeader |-> ZeroHeader, Lines |-> << >>]

\* the return statements of DiffCut on an error
ReturnErr(e) == [diffCutHeader |-> ZeroHeader, hunk |-> ZeroHunk, err |-> e]

\* --------------------------------------------------- header recognizers
\* a file header line ("diff --git ..."): first byte 'd'
ParseDiffFileHeader(line) == line # << >> /\ line[1] = 100

\* a hunk header line ("@@ -o,s +n,s @@"): byte '@', then the two start lines
ParseDiffHunkHeader(line) ==
    IF line # << >> /\ line[1] = 64
    THEN [ok |-> TRUE,
          h |-> [OldLine |-> line[2], OldSpan |-> 0, NewLine |-> line[3], NewSpan |-> 0]]
    ELSE [ok |-> FALSE, h |-> ZeroHeader]

\* ------------------------------------------------------------ the reader
\* the index in s of the first file header line, 0 if there is none
FileHeaderAt(s) ==
    LET I == {i \in 1..Len(s) : ParseDiffFileHeader(s[i])}
    IN IF I = {} THEN 0 ELSE CHOOSE i \in I : \A j \in I : i <= j

\* the index in s of the first hunk header line after the first file header
\* line, 0 if there is none
HunkHeaderAt(s) ==
    LET f == FileHeaderAt(s)
        I == {i \in 1..Len(s) : f > 0 /\ i > f /\ ParseDiffHunkHeader(s[i]).ok}
    IN IF I = {} THEN 0 ELSE CHOOSE i \in I : \A j \in I : i <= j

\* the lines of s that follow that hunk header line
Content(s) ==
    LET h == HunkHeaderAt(s)
    IN IF h = 0 THEN << >> ELSE SubSeq(s, h + 1, Len(s))

\* the number of lines of s up to the hunk header that are neither of the two
\* header lines
Discarded(s) ==
    LET h == HunkHeaderAt(s)
    IN IF h > 0 THEN h - 2
       ELSE IF FileHeaderAt(s) > 0 THEN Len(s) - 1 ELSE Len(s)

\* the start lines a hunk header of the stream may carry
HunkStarts == {<<1, 1>>}

FileHeaderLines(n) == {<<100, n>>}
HunkHeaderLines == {<<64, h[1], h[2]>> : h \in HunkStarts}

\* the lines the reader can deliver as line number Len(s) + 1 of the stream:
\* up to the hunk header, header lines and other text ('x'), with at most
\* MaxDiscard lines for the header search to discard; after it, at most
\* MaxContent lines: content lines, other text and the blank line
NextLines(s) ==
    LET n == Len(s) + 1
    IN IF HunkHeaderAt(s) = 0
       THEN IF Discarded(s) < MaxDiscard
            THEN FileHeaderLines(n) \cup HunkHeaderLines \cup {<<120, n>>}
            ELSE IF FileHeaderAt(s) = 0 THEN FileHeaderLines(n) ELSE HunkHeaderLines
       ELSE IF Len(Content(s)) < MaxContent
            THEN {<<a, n>> : a \in Actions} \cup {<<120, n>>, << >>}
            ELSE {}

\* what one call of scanner.Scan() can give after the lines in s: the next
\* line, or false with scanner.Err() nil (end of stream) or non-nil
ScanOutcomes(s) ==
    {[ok |-> TRUE, text |-> l, err |-> ErrNil] : l \in NextLines(s)}
      \cup {[ok |-> FALSE, text |-> << >>, err |-> e] : e \in {ErrNil, ErrRead}}

\* ---------------------------------------------------------- strCircBuf
newStrCircBuf(size) == [head |-> -1, entries |-> << >>, cap |-> size]

\* push without the overwrite of the oldest entry
pushUnbounded(b, s) ==
    [b EXCEPT !.head = b.head + 1, !.entries = Append(b.entries, s)]

\* push; head and the entries are 0-based in the code, entries[i] is
\* entries[i + 1] here
push(b, s) ==
    IF b.cap = 0 THEN b
    ELSE IF Len(b.entries) < b.cap
         THEN [b EXCEPT !.head = b.head + 1, !.entries = Append(b.entries, s)]
         ELSE LET h == IF b.head + 1 >= b.cap THEN 0 ELSE b.head + 1
              IN [b EXCEPT !.head = h, !.entries[h + 1] = s]

\* lines without the rotation to the oldest entry
linesUnrotated(b) == b.entries

lines(b) ==
    IF Len(b.entries) < b.cap THEN b.entries
    ELSE [i \in 1..b.cap |-> b.entries[((b.head + 1 + (i - 1)) % b.cap) + 1]]

\* concat with the first two slices exchanged
concatCutFirst(a, b, c) == b \o a \o c

concat(a, b, c) == a \o b \o c

VARIABLES db, cc, first, reader, params, stream, scanErr, pc, hunkHeader,
          currentOldLine, currentNewLine, inCut, diffCutHeader, diffCut, linesBeforeBuf,
          err, linesAfter, ret, pushed, brk

vars == <<db, cc, first, reader, params, stream, scanErr, pc, hunkHeader,
          currentOldLine, currentNewLine, inCut, diffCutHeader, diffCut, linesBeforeBuf,
          err, linesAfter, ret, pushed, brk>>

\* db is the invocation of Controller.DeleteBranch with the repository it
\* works on, cc the invocation of Controller.CommentCreate with the pull
\* request it works on; the other variables are those of DiffCut:
\* first holds the results of the earlier invocations of DiffCut; reader is
\* the io.Reader r DiffCut is called with: one whose lines are not fixed in
\* advance (ScanOutcomes chooses them as they are read), or one holding the
\* given text, whose Scan() after the last line gives false with scanner.Err()
\* end; pc is the loop DiffCut is in ("done" after its return); ret is what
\* it returned; pushed lists the arguments of the calls of
\* linesBeforeBuf.push;
\* brk names the break statement that ended the scan loop ("range", "eof",
\* "limit"; "" while none has)

DiffCutParams ==
    [LineStart : 1..MaxLineNo, LineStartNew : BOOLEAN,
     LineEnd : 1..MaxLineNo, LineEndNew : BOOLEAN,
     BeforeLines : 0..MaxBefore, AfterLines : 0..MaxAfter,
     LineLimit : 0..MaxLimit]

\* DiffCut without the search for the file header
EntryPCNoFileHeader == "scanHunkHeader"

\* DiffCut starts with the search for the file header
EntryPC == "scanFileHeader"

\* a reader whose lines are chosen as they are read
AnyReader == [fixed |-> FALSE, text |-> << >>, end |-> ErrNil]

\* a reader over the lines of text
TextReader(text, end) == [fixed |-> TRUE, text |-> text, end |-> end]

\* what one call of scanner.Scan() can give once the lines of stream are read
Scan ==
    IF reader.fixed
    THEN IF Len(stream) < Len(reader.text)
         THEN {[ok |-> TRUE, text |-> reader.text[Len(stream) + 1], err |-> ErrNil]}
         ELSE {[ok |-> FALSE, text |-> << >>, err |-> reader.end]}
    ELSE ScanOutcomes(stream)

\* no invocation of the two controllers
DeleteBranchIdle == [pc |-> "idle"]
CommentCreateIdle == [pc |-> "idle"]
NoControllerCall == db = DeleteBranchIdle /\ cc = CommentCreateIdle

\* the scanner and the local variables when DiffCut is entered
InitLocals ==
    /\ stream = << >>
    /\ scanErr = ErrNil
    /\ pc = EntryPC
    /\ hunkHeader = ZeroHeader
    /\ currentOldLine = 0
    /\ currentNewLine = 0
    /\ inCut = FALSE
    /\ diffCutHeader = ZeroHeader
    /\ diffCut = << >>
    /\ linesBeforeBuf = newStrCircBuf(0)
    /\ err = ErrNil
    /\ linesAfter = << >>
    /\ ret = ReturnErr(ErrNil)
    /\ pushed = << >>
    /\ brk = ""

Init ==
    /\ first = << >>
    /\ reader = AnyReader
    /\ params \in DiffCutParams
    /\ InitLocals
    /\ NoControllerCall

\* a scanner that does not move on to the next line
ScannedNoAdvance(rd) ==
    /\ stream' = stream
    /\ scanErr' = IF rd.ok THEN scanErr ELSE rd.err

\* the scanner after one Scan() with outcome rd
Scanned(rd) ==
    /\ stream' = IF rd.ok THEN Append(stream, rd.text) ELSE stream
    /\ scanErr' = IF rd.ok THEN scanErr ELSE rd.err

\* the error scanFileHeader and scanHunkHeader return when Scan() gave false
HeaderSearchErr(rd) == IF rd.err # ErrNil THEN rd.err ELSE ErrHunkNotFound

\* one iteration of scanFileHeader's loop, with the return that follows it
scanFileHeader ==
    /\ pc = "scanFileHeader"
    /\ \E rd \in Scan :
         /\ Scanned(rd)
         /\ IF rd.ok
            THEN /\ pc' = IF ParseDiffFileHeader(rd.text)
                          THEN "scanHunkHeader" ELSE "scanFileHeader"
                 /\ ret' = ret
            ELSE /\ pc' = "done"
                 /\ ret' = ReturnErr(HeaderSearchErr(rd))
    /\ UNCHANGED <<db, cc, first, reader, params, hunkHeader, currentOldLine,
                   currentNewLine, inCut, diffCutHeader, diffCut,
                   linesBeforeBuf, err, linesAfter, pushed, brk>>

\* one iteration of scanHunkHeader's loop, with the return that follows it or
\* the initialisation of the scan loop's variables
scanHunkHeader ==
    /\ pc = "scanHunkHeader"
    /\ \E rd \in Scan :
         /\ Scanned(rd)
         /\ IF rd.ok
            THEN LET p == ParseDiffHunkHeader(rd.text)
                 IN IF p.ok
                    THEN /\ pc' = "scanLoop"
                         /\ hunkHeader' = p.h
                         /\ currentOldLine' = p.h.OldLine
                         /\ currentNewLine' = p.h.NewLine
                         /\ linesBeforeBuf' = newStrCircBuf(params.BeforeLines)
                         /\ ret' = ret
                    ELSE /\ pc' = "scanHunkHeader"
                         /\ UNCHANGED <<hunkHeader, currentOldLine, currentNewLine,
                                        linesBeforeBuf, ret>>
            ELSE /\ pc' = "done"
                 /\ ret' = ReturnErr(HeaderSearchErr(rd))
                 /\ UNCHANGED <<hunkHeader, currentOldLine, currentNewLine,
                                linesBeforeBuf>>
    /\ UNCHANGED <<db, cc, first, reader, params, inCut, diffCutHeader,
                   diffCut, err, linesAfter, pushed, brk>>

\* scanHunkLine giving the empty line without an error
scanHunkLineBlankEOF(rd) ==
    IF ~rd.ok
    THEN [line |-> << >>, action |-> actionUnchanged, err |-> rd.err]
    ELSE IF rd.text = << >> \/ rd.text[1] \notin Actions
    THEN [line |-> << >>, action |-> actionUnchanged, err |-> ErrNil]
    ELSE [line |-> rd.text, action |-> rd.text[1], err |-> ErrNil]

\* scanHunkLine taking every non-empty line, by its first byte
scanHunkLineAnyByte(rd) ==
    IF ~rd.ok
    THEN [line |-> << >>, action |-> actionUnchanged, err |-> rd.err]
    ELSE IF rd.text = << >>
    THEN [line |-> << >>, action |-> actionUnchanged, err |-> ErrHunkNotFound]
    ELSE [line |-> rd.text, action |-> rd.text[1], err |-> ErrNil]

\* scanHunkLine on the outcome rd of its scan.Scan()
scanHunkLine(rd) ==
    IF ~rd.ok
    THEN [line |-> << >>, action |-> actionUnchanged, err |-> rd.err]
    ELSE IF rd.text = << >>
    THEN [line |-> << >>, action |-> actionUnchanged, err |-> ErrHunkNotFound]
    ELSE IF rd.text[1] \notin Actions
    THEN [line |-> << >>, action |-> actionUnchanged, err |-> ErrNil]
    ELSE [line |-> rd.text, action |-> rd.text[1], err |-> ErrNil]

\* the local variables of DiffCut from its scan loop on
Locals ==
    [currentOldLine |-> currentOldLine, currentNewLine |-> currentNewLine,
     inCut |-> inCut, diffCutHeader |-> diffCutHeader, diffCut |-> diffCut,
     linesBeforeBuf |-> linesBeforeBuf, err |-> err, linesAfter |-> linesAfter,
     pc |-> pc, ret |-> ret, pushed |-> pushed, brk |-> brk]

\* the termination guard on the counter of the other numbering
RangeExceededSwapped(s, p) ==
    \/ p.LineEndNew /\ s.currentOldLine > p.LineEnd
    \/ ~p.LineEndNew /\ s.currentNewLine > p.LineEnd

\* the termination guard at the head of the scan loop
RangeExceeded(s, p) ==
    \/ p.LineEndNew /\ s.currentNewLine > p.LineEnd
    \/ ~p.LineEndNew /\ s.currentOldLine > p.LineEnd

\* the routing decision with the line at LineStart still before the range
BeforeRangeInclusive(s, p) ==
    \/ p.LineStartNew /\ s.currentNewLine <= p.LineStart
    \/ ~p.LineStartNew /\ s.currentOldLine <= p.LineStart

\* "not yet in the requested line range"
BeforeRange(s, p) ==
    \/ p.LineStartNew /\ s.currentNewLine < p.LineStart
    \/ ~p.LineStartNew /\ s.currentOldLine < p.LineStart

\* the safety break one line late, and one line early
LimitExceededLate(cut, p) == Len(cut) > p.LineLimit + 1
LimitExceededEarly(cut, p) == Len(cut) >= p.LineLimit

\* the safety break
LimitExceeded(cut, p) == Len(cut) > p.LineLimit

\* the increments with the two counters exchanged
AdvanceSwapped(s, action) ==
    [s EXCEPT !.currentOldLine = IF action # actionRemoved THEN @ + 1 ELSE @,
              !.currentNewLine = IF action # actionAdded THEN @ + 1 ELSE @]

\* "increment the line numbers"
Advance(s, action) ==
    [s EXCEPT !.currentNewLine = IF action # actionRemoved THEN @ + 1 ELSE @,
              !.currentOldLine = IF action # actionAdded THEN @ + 1 ELSE @]

\* the header of the exact window when the line enters the cut
CutHeader(s, action) ==
    LET h == IF ~s.inCut
             THEN [s.diffCutHeader EXCEPT !.NewLine = s.currentNewLine,
                                          !.OldLine = s.currentOldLine]
             ELSE s.diffCutHeader
    IN [h EXCEPT !.NewSpan = IF action # actionRemoved THEN @ + 1 ELSE @,
                 !.OldSpan = IF action # actionAdded THEN @ + 1 ELSE @]

\* the else branch of the routing decision: the line enters the cut
IntoCut(s, line, action) ==
    [s EXCEPT !.diffCutHeader = CutHeader(s, action), !.inCut = TRUE,
              !.diffCut = Append(s.diffCut, line)]

\* the loop over linesBefore counting the spans only
WalkBeforeSpansOnly(h, ls) ==
    [h EXCEPT !.NewSpan = @ + NonRemoved(ls), !.OldSpan = @ + NonAdded(ls)]

\* the reconciliation loop over linesBefore
RECURSIVE WalkBefore(_, _)
WalkBefore(h, ls) ==
    IF ls = << >> THEN h
    ELSE LET action == Head(ls)[1]
             h1 == IF action # actionRemoved
                   THEN [h EXCEPT !.NewLine = @ - 1, !.NewSpan = @ + 1] ELSE h
             h2 == IF action # actionAdded
                   THEN [h1 EXCEPT !.OldLine = @ - 1, !.OldSpan = @ + 1] ELSE h1
         IN WalkBefore(h2, Tail(ls))

\* the loop over linesAfter without its count of OldSpan
WalkAfterNewOnly(h, ls) == [h EXCEPT !.NewSpan = @ + NonRemoved(ls)]

\* the reconciliation loop over linesAfter
RECURSIVE WalkAfter(_, _)
WalkAfter(h, ls) ==
    IF ls = << >> THEN h
    ELSE LET action == Head(ls)[1]
             h1 == IF action # actionRemoved THEN [h EXCEPT !.NewSpan = @ + 1] ELSE h
             h2 == IF action # actionAdded THEN [h1 EXCEPT !.OldSpan = @ + 1] ELSE h1
         IN WalkAfter(h2, Tail(ls))

\* the first result sharing the walk back over linesBefore
ExactHeaderAliased(s) == WalkBefore(s.diffCutHeader, lines(s.linesBeforeBuf))

\* the header DiffCut returns first: the header of the exact window
ExactHeader(s) == s.diffCutHeader

\* span reconciliation and the successful return
ReturnCut(s) ==
    LET linesBefore == lines(s.linesBeforeBuf)
        diffCutHeaderLines ==
            WalkAfter(WalkBefore(s.diffCutHeader, linesBefore), s.linesAfter)
    IN [s EXCEPT !.pc = "done",
                 !.ret = [diffCutHeader |-> ExactHeader(s),
                          hunk |-> [HunkHeader |-> diffCutHeaderLines,
                                    Lines |-> concat(linesBefore, s.diffCut,
                                                     s.linesAfter)],
                          err |-> ErrNil]]

\* the trailing-context collection without its scanner.Err() check, and with
\* the check returning the hunk beside the error
AfterErrIgnored(s, e) == ReturnCut([s EXCEPT !.err = e])
AfterErrPartial(s, e) == [ReturnCut(s) EXCEPT !.err = e, !.ret.err = e]

\* the error return of the trailing-context collection
AfterErr(s, e) == [s EXCEPT !.err = e, !.pc = "done", !.ret = ReturnErr(e)]

\* whether the trailing context is collected after the scan loop
WantsAfter(s) == s.err # ErrEOF

\* what follows the scan loop without the inCut check
AfterLoopNoCheck(s) ==
    IF WantsAfter(s) THEN [s EXCEPT !.pc = "linesAfter"] ELSE ReturnCut(s)

\* what follows the scan loop with the safety break as an error
AfterLoopLimitErr(s) ==
    IF ~s.inCut \/ s.brk = "limit"
    THEN [s EXCEPT !.pc = "done", !.ret = ReturnErr(ErrHunkNotFound)]
    ELSE IF WantsAfter(s) THEN [s EXCEPT !.pc = "linesAfter"] ELSE ReturnCut(s)

\* after the scan loop: the not-found return; else the trailing-context loop,
\* or past it to the reconciliation
AfterLoop(s) ==
    IF ~s.inCut
    THEN [s EXCEPT !.pc = "done", !.ret = ReturnErr(ErrHunkNotFound)]
    ELSE IF WantsAfter(s) THEN [s EXCEPT !.pc = "linesAfter"] ELSE ReturnCut(s)

\* the body of the scan loop after its guard, on the outcome rd of the read
LoopBody(s, p, rd) ==
    LET r == scanHunkLine(rd)
    IN IF r.err # ErrNil
       THEN [s EXCEPT !.err = r.err, !.pc = "done", !.ret = ReturnErr(r.err)]
       ELSE IF r.line = << >>
       THEN AfterLoop([s EXCEPT !.err = ErrEOF, !.brk = "eof"])
       ELSE IF BeforeRange(s, p)
       THEN Advance([s EXCEPT !.err = ErrNil,
                              !.linesBeforeBuf = push(s.linesBeforeBuf, r.line),
                              !.pushed = Append(s.pushed, r.line)],
                    r.action)
       ELSE LET t == IntoCut([s EXCEPT !.err = ErrNil], r.line, r.action)
            IN IF LimitExceeded(t.diffCut, p)
               THEN AfterLoop([t EXCEPT !.brk = "limit"])
               ELSE Advance(t, r.action)

SetLocals(n) ==
    /\ currentOldLine' = n.currentOldLine
    /\ currentNewLine' = n.currentNewLine
    /\ inCut' = n.inCut
    /\ diffCutHeader' = n.diffCutHeader
    /\ diffCut' = n.diffCut
    /\ linesBeforeBuf' = n.linesBeforeBuf
    /\ err' = n.err
    /\ linesAfter' = n.linesAfter
    /\ pc' = n.pc
    /\ ret' = n.ret
    /\ pushed' = n.pushed
    /\ brk' = n.brk

\* one iteration of the scan loop; the iteration that ends the loop goes on to
\* what follows the loop
scanLoop ==
    /\ pc = "scanLoop"
    /\ IF RangeExceeded(Locals, params)
       THEN /\ SetLocals(AfterLoop([Locals EXCEPT !.brk = "range"]))
            /\ UNCHANGED <<stream, scanErr>>
       ELSE \E rd \in Scan :
              /\ Scanned(rd)
              /\ SetLocals(LoopBody(Locals, params, rd))
    /\ UNCHANGED <<db, cc, first, reader, params, hunkHeader>>

\* the trailing-context loop appending to the cut as well
AfterBodyIntoCut(s, p, rd) ==
    IF rd.ok
    THEN IF rd.text = << >>
         THEN ReturnCut(s)
         ELSE [s EXCEPT !.linesAfter = Append(s.linesAfter, rd.text),
                        !.diffCut = Append(s.diffCut, rd.text)]
    ELSE IF rd.err # ErrNil THEN AfterErr(s, rd.err)
         ELSE ReturnCut(s)

\* one iteration of the trailing-context loop (its index i is
\* Len(linesAfter)); the iteration that ends the loop goes on to the
\* scanner.Err() check and the reconciliation
AfterBody(s, p, rd) ==
    IF rd.ok
    THEN IF rd.text = << >>
         THEN ReturnCut(s)
         ELSE [s EXCEPT !.linesAfter = Append(s.linesAfter, rd.text)]
    ELSE IF rd.err # ErrNil THEN AfterErr(s, rd.err)
         ELSE ReturnCut(s)

scanLinesAfter ==
    /\ pc = "linesAfter"
    /\ IF Len(linesAfter) >= params.AfterLines
       THEN /\ SetLocals(ReturnCut(Locals))
            /\ UNCHANGED <<stream, scanErr>>
       ELSE \E rd \in Scan :
              /\ Scanned(rd)
              /\ SetLocals(AfterBody(Locals, params, rd))
    /\ UNCHANGED <<db, cc, first, reader, params, hunkHeader>>

Next ==
    \/ scanFileHeader
    \/ scanHunkHeader
    \/ scanLoop
    \/ scanLinesAfter

Spec == Init /\ [][Next]_vars

\* ------------------------------------------------------ two invocations
\* the local variables of an invocation that finds those of the earlier one
KeptLocals(s) ==
    [s EXCEPT !.pc = EntryPC, !.ret = ReturnErr(ErrNil), !.brk = "",
              !.pushed = << >>]

\* the local variables at the entry of DiffCut; none is taken from s, the
\* local variables of the earlier invocation
EntryLocals(s) ==
    [currentOldLine |-> 0, currentNewLine |-> 0, inCut |-> FALSE,
     diffCutHeader |-> ZeroHeader, diffCut |-> << >>,
     linesBeforeBuf |-> newStrCircBuf(0), err |-> ErrNil, linesAfter |-> << >>,
     pc |-> EntryPC, ret |-> ReturnErr(ErrNil), pushed |-> << >>, brk |-> ""]

\* DiffCut is called again with the same params, on a reader that gives what
\* the reader of the first invocation gave
invokeAgain ==
    /\ pc = "done"
    /\ first = << >>
    /\ first' = <<ret>>
    /\ reader' = TextReader(stream, scanErr)
    /\ stream' = << >>
    /\ scanErr' = ErrNil
    /\ hunkHeader' = ZeroHeader
    /\ SetLocals(EntryLocals(Locals))
    /\ UNCHANGED <<db, cc, params>>

NextTwice ==
    \/ Next
    \/ invokeAgain

\* the requests the two invocations are made with: those of DiffCutParams
\* with the largest LineLimit
TwiceParams == {p \in DiffCutParams : p.LineLimit = MaxLimit}

InitTwice ==
    /\ first = << >>
    /\ reader = AnyReader
    /\ params \in TwiceParams
    /\ InitLocals
    /\ NoControllerCall

SpecTwice == InitTwice /\ [][NextTwice]_vars

\* ------------------------------------------------- the scenario of the hunk
\* a file header, the hunk header "@@ -5,4 +5,5 @@" and the lines " a", "-b",
\* "+c", "+d", " e"
ScenarioText ==
    << <<100, 1>>, <<64, 5, 5>>,
       <<32, 97>>, <<45, 98>>, <<43, 99>>, <<43, 100>>, <<32, 101>> >>

\* the requests for a range of old line numbers with one line of context on
\* either side
ScenarioParams ==
    [LineStart : 1..10, LineStartNew : {FALSE},
     LineEnd : 1..10, LineEndNew : {FALSE},
     BeforeLines : {1}, AfterLines : {1}, LineLimit : {10}]

InitScenario ==
    /\ first = << >>
    /\ reader = TextReader(ScenarioText, ErrNil)
    /\ params \in ScenarioParams
    /\ InitLocals
    /\ NoControllerCall

SpecScenario == InitScenario /\ [][Next]_vars

\* ------------------------------------------------------ finite streams
\* texts for the runs to the return: the scenario's text cut off after any of
\* its lines, as it is or behind a line of other text, and with nothing, a
\* blank line or a line of other text at its end
FairTexts ==
    {lead \o SubSeq(ScenarioText, 1, k) \o tail :
       lead \in {<< >>, << <<120, 0>> >>},
       k \in 0..Len(ScenarioText),
       tail \in {<< >>, << << >> >>, << <<120, 0>> >>}}

\* the scenario's requests, with and without room in the cut
FairParams ==
    [LineStart : 1..10, LineStartNew : {FALSE},
     LineEnd : 1..10, LineEndNew : {FALSE},
     BeforeLines : {1}, AfterLines : {1}, LineLimit : {0, 10}]

InitFair ==
    /\ first = << >>
    /\ reader \in {TextReader(t, e) : t \in FairTexts, e \in {ErrNil, ErrRead}}
    /\ params \in FairParams
    /\ InitLocals
    /\ NoControllerCall

\* DiffCut on a given finite text runs to its return: it is one sequential
\* computation, and every Scan() comes back with the one outcome the text
\* has for it
SpecFair == InitFair /\ [][Next]_vars /\ WF_vars(Next)

\* ------------------------------------------- Controller.DeleteBranch
\* the variables of DiffCut
diffCutVars ==
    <<first, reader, params, stream, scanErr, pc, hunkHeader, currentOldLine,
      currentNewLine, inCut, diffCutHeader, diffCut, linesBeforeBuf, err,
      linesAfter, ret, pushed, brk>>

\* the branches of the repository
Branches == {"main", "dev"}

\* the values of []types.RuleViolations: none, or a list of one or two
\* entries
RuleViolations == {<< >>, <<"v1">>, <<"v1", "v2">>}

\* types.DeleteBranchOutput{}
ZeroDeleteBranchOutput == [DryRunRules |-> FALSE, RuleViolations |-> << >>]

\* the invocation d after a return statement of DeleteBranch
DeleteBranchReturn(d, out, violations, e) ==
    [d EXCEPT !.pc = "done",
              !.ret = [out |-> out, violations |-> violations, err |-> e]]

\* db.accessErr, db.rulesErr, db.verifyErr, db.writeParamsErr and db.gitErr
\* are the errors the calls returned ("" before the call), db.critical is
\* what protection.IsCritical(violations) returned; db.deleteCalls counts
\* the calls of c.git.DeleteBranch; db.branches are the branches git
\* holds, db.DefaultBranch is repo.DefaultBranch
InitDeleteBranch ==
    /\ db \in [pc : {"getRepoCheckAccess"}, branchName : Branches,
                bypassRules : BOOLEAN, dryRunRules : BOOLEAN,
                DefaultBranch : Branches, branches : {Branches},
                accessErr : {""}, rulesErr : {""}, verifyErr : {""},
                violations : {<< >>}, critical : {""},
                writeParamsErr : {""}, gitErr : {""},
                deleteCalls : {0},
                ret : {[out |-> ZeroDeleteBranchOutput, violations |-> << >>,
                        err |-> ""]}]
    /\ cc = CommentCreateIdle
    /\ first = << >>
    /\ reader = AnyReader
    /\ params = [LineStart |-> 0, LineStartNew |-> FALSE, LineEnd |-> 0,
                 LineEndNew |-> FALSE, BeforeLines |-> 0, AfterLines |-> 0,
                 LineLimit |-> 0]
    /\ InitLocals

DeleteBranch_getRepoCheckAccess ==
    /\ db.pc = "getRepoCheckAccess"
    /\ \E e \in {"nil", "ErrAccess"} :
         db' = IF e # "nil"
               THEN DeleteBranchReturn([db EXCEPT !.accessErr = e],
                                       ZeroDeleteBranchOutput, << >>, e)
               ELSE [db EXCEPT !.accessErr = e, !.pc = "defaultBranch"]
    /\ UNCHANGED <<cc, diffCutVars>>

\* the default branch check that lets every branch pass
DeleteBranch_defaultBranchSkipped ==
    /\ db.pc = "defaultBranch"
    /\ db' = [db EXCEPT !.pc = "fetchRules"]
    /\ UNCHANGED <<cc, diffCutVars>>

\* "make sure user isn't deleting the default branch"
DeleteBranch_defaultBranch ==
    /\ db.pc = "defaultBranch"
    /\ db' = IF db.branchName = db.DefaultBranch
             THEN DeleteBranchReturn(db, ZeroDeleteBranchOutput, << >>,
                                     "ErrDefaultBranchCantBeDeleted")
             ELSE [db EXCEPT !.pc = "fetchRules"]
    /\ UNCHANGED <<cc, diffCutVars>>

DeleteBranch_fetchRules ==
    /\ db.pc = "fetchRules"
    /\ \E e \in {"nil", "ErrRules"} :
         db' = IF e # "nil"
               THEN DeleteBranchReturn([db EXCEPT !.rulesErr = e],
                                       ZeroDeleteBranchOutput, << >>, e)
               ELSE [db EXCEPT !.rulesErr = e, !.pc = "RefChangeVerify"]
    /\ UNCHANGED <<cc, diffCutVars>>

\* rules.RefChangeVerify gives an error or the violations
DeleteBranch_RefChangeVerify ==
    /\ db.pc = "RefChangeVerify"
    /\ \/ db' = DeleteBranchReturn([db EXCEPT !.verifyErr = "ErrVerify"],
                                    ZeroDeleteBranchOutput, << >>,
                                    "failed to verify protection rules")
       \/ \E v \in RuleViolations :
            db' = [db EXCEPT !.verifyErr = "nil", !.violations = v,
                             !.pc = "dryRunRules"]
    /\ UNCHANGED <<cc, diffCutVars>>

DeleteBranch_dryRunRules ==
    /\ db.pc = "dryRunRules"
    /\ db' = IF db.dryRunRules
             THEN DeleteBranchReturn(db, [DryRunRules |-> TRUE,
                                          RuleViolations |-> db.violations],
                                     << >>, "nil")
             ELSE [db EXCEPT !.pc = "IsCritical"]
    /\ UNCHANGED <<cc, diffCutVars>>

\* protection.IsCritical(violations) gives true or false; no violations are
\* not critical
DeleteBranch_IsCritical ==
    /\ db.pc = "IsCritical"
    /\ \E critical \in IF db.violations = << >> THEN {"false"}
                       ELSE {"true", "false"} :
         db' = IF critical = "true"
               THEN DeleteBranchReturn([db EXCEPT !.critical = critical],
                                       ZeroDeleteBranchOutput, db.violations,
                                       "nil")
               ELSE [db EXCEPT !.critical = critical,
                               !.pc = "CreateRPCInternalWriteParams"]
    /\ UNCHANGED <<cc, diffCutVars>>

DeleteBranch_CreateRPCInternalWriteParams ==
    /\ db.pc = "CreateRPCInternalWriteParams"
    /\ \E e \in {"nil", "ErrWriteParams"} :
         db' = IF e # "nil"
               THEN DeleteBranchReturn([db EXCEPT !.writeParamsErr = e],
                                       ZeroDeleteBranchOutput, << >>,
                                       "failed to create RPC write params")
               ELSE [db EXCEPT !.writeParamsErr = e, !.pc = "git.DeleteBranch"]
    /\ UNCHANGED <<cc, diffCutVars>>

\* c.git.DeleteBranch: the branch is gone, or git returns an error
DeleteBranch_gitDeleteBranch ==
    /\ db.pc = "git.DeleteBranch"
    /\ \E e \in {"nil", "ErrGit"} :
         LET d == [db EXCEPT !.deleteCalls = @ + 1, !.gitErr = e]
         IN db' = IF e # "nil"
                  THEN DeleteBranchReturn(d, ZeroDeleteBranchOutput, << >>, e)
                  ELSE DeleteBranchReturn(
                         [d EXCEPT !.branches = @ \ {db.branchName}],
                         [DryRunRules |-> FALSE,
                          RuleViolations |-> db.violations],
                         << >>, "nil")
    /\ UNCHANGED <<cc, diffCutVars>>

NextDeleteBranch ==
    \/ DeleteBranch_getRepoCheckAccess
    \/ DeleteBranch_defaultBranch
    \/ DeleteBranch_fetchRules
    \/ DeleteBranch_RefChangeVerify
    \/ DeleteBranch_dryRunRules
    \/ DeleteBranch_IsCritical
    \/ DeleteBranch_CreateRPCInternalWriteParams
    \/ DeleteBranch_gitDeleteBranch

SpecDeleteBranch == InitDeleteBranch /\ [][NextDeleteBranch]_vars

\* ------------------------------------------- Controller.CommentCreate
\* an error is the list of its messages, outermost first; nil is the empty
\* list
NoError == << >>

\* fmt.Errorf("msg: %w", e)
Errorf(msg, e) == <<msg>> \o e

\* usererror.BadRequest(msg)
BadRequest(msg) == <<"BadRequest", msg>>

\* the errors c.gitRPCClient.DiffCut returns: a status and a message
GitRPCErrors ==
    {NoError, <<"NotFound", "hunk not found">>, <<"Internal", "diff failed">>}

\* gitrpc.ErrorStatus and gitrpc.ErrorMessage
ErrorStatus(e) == IF e = NoError THEN "" ELSE e[1]
ErrorMessage(e) == IF e = NoError THEN "" ELSE e[2]

CommentCreateInputs ==
    [ParentID : {0, 1}, TargetCommitSHA : {"", "t"},
     SourceCommitSHA : {"", "s"}, Path : {"", "p"},
     LineStart : {0, 1}, LineEnd : {0, 1}]

\* CommentCreateInput.IsCodeComment
IsCodeComment(in) == in.SourceCommitSHA # ""

\* CommentCreateInput.Validate
Validate(in) ==
    IF in.SourceCommitSHA = "" /\ in.TargetCommitSHA = ""
    THEN NoError
    ELSE IF in.SourceCommitSHA = "" \/ in.TargetCommitSHA = ""
    THEN BadRequest("for code comments source commit SHA and target commit SHA must be provided")
    ELSE IF in.ParentID # 0
    THEN BadRequest("can't create a reply that is a code comment")
    ELSE IF in.Path = ""
    THEN BadRequest("code comment requires file path")
    ELSE IF in.LineStart <= 0 \/ in.LineEnd <= 0
    THEN BadRequest("code comments require line numbers")
    ELSE NoError

\* the activity getCommentActivity builds
getCommentActivity ==
    [ParentID |-> 0, Order |-> 0, SubOrder |-> 0, Type |-> "comment",
     Kind |-> "comment", CodeCommentSourceSHA |-> "",
     CodeCommentMergeBaseSHA |-> "", CodeCommentPath |-> ""]

setAsCodeComment(a, cut, path, sourceCommitSHA) ==
    [a EXCEPT !.Type = "code-comment", !.Kind = "change-comment",
              !.CodeCommentMergeBaseSHA = cut.MergeBaseSHA,
              !.CodeCommentSourceSHA = sourceCommitSHA,
              !.CodeCommentPath = path]

\* the invocation c after a return statement of CommentCreate; a returned
\* activity is a list of one
CommentCreateReturn(c, act, e) ==
    [c EXCEPT !.pc = "done", !.ret = [act |-> act, err |-> e]]

\* cc.in is the input, cc.act the activity being built, cc.err the local
\* variable err; cc.prRow is the pull request in the store, cc.activities are
\* the activities activityStore.Create wrote, cc.parent is the parent
\* activity of a reply; cc.pr0 is the pull request in the store when
\* CommentCreate was called; cc.errValidate, cc.cutErr and cc.countErr are
\* what in.Validate, c.gitRPCClient.DiffCut and c.pullreqStore.UpdateOptLock
\* returned, cc.cut is the output of DiffCut, cc.migrated tells that
\* c.codeCommentView.UpdateAll was called
InitCommentCreate ==
    /\ \E in \in CommentCreateInputs, seq \in {0, 1}, count \in {0, 1} :
         LET row == [ActivitySeq |-> seq, CommentCount |-> count,
                     MergeBaseSHA |-> "b"]
         IN cc = [pc |-> "getRepoCheckAccess", in |-> in,
                  act |-> getCommentActivity, err |-> NoError,
                  prRow |-> row, pr0 |-> row, activities |-> << >>,
                  parent |-> [Order |-> 0, ReplySeq |-> 0, Kind |-> ""],
                  errValidate |-> NoError, cutErr |-> NoError,
                  cut |-> [LatestSourceSHA |-> "", MergeBaseSHA |-> ""],
                  countErr |-> NoError, migrated |-> FALSE,
                  ret |-> [act |-> << >>, err |-> NoError]]
    /\ db = DeleteBranchIdle
    /\ first = << >>
    /\ reader = AnyReader
    /\ params = [LineStart |-> 0, LineStartNew |-> FALSE, LineEnd |-> 0,
                 LineEndNew |-> FALSE, BeforeLines |-> 0, AfterLines |-> 0,
                 LineLimit |-> 0]
    /\ InitLocals

CommentCreate_getRepoCheckAccess ==
    /\ cc.pc = "getRepoCheckAccess"
    /\ \E e \in {NoError, <<"ErrAccess">>} :
         cc' = IF e # NoError
               THEN CommentCreateReturn(
                      [cc EXCEPT !.err = e], << >>,
                      Errorf("failed to acquire access to repo", e))
               ELSE [cc EXCEPT !.pc = "FindByNumber"]
    /\ UNCHANGED <<db, diffCutVars>>

CommentCreate_FindByNumber ==
    /\ cc.pc = "FindByNumber"
    /\ \E e \in {NoError, <<"ErrFind">>} :
         cc' = IF e # NoError
               THEN CommentCreateReturn(
                      [cc EXCEPT !.err = e], << >>,
                      Errorf("failed to find pull request by number", e))
               ELSE [cc EXCEPT !.pc = "Validate"]
    /\ UNCHANGED <<db, diffCutVars>>

\* in.Validate, getCommentActivity and the choice of the switch
CommentCreate_Validate ==
    /\ cc.pc = "Validate"
    /\ LET errValidate == Validate(cc.in)
           c == [cc EXCEPT !.errValidate = errValidate]
       IN cc' = IF errValidate # NoError
                THEN CommentCreateReturn(c, << >>, errValidate)
                ELSE [c EXCEPT !.act = getCommentActivity,
                               !.pc = IF IsCodeComment(cc.in) THEN "DiffCut"
                                      ELSE IF cc.in.ParentID # 0
                                      THEN "checkIsReplyable"
                                      ELSE "writeActivity"]
    /\ UNCHANGED <<db, diffCutVars>>

\* the outputs of c.gitRPCClient.DiffCut for the input in
DiffCutOutputs(c) ==
    [LatestSourceSHA : {c.in.SourceCommitSHA, "s2"},
     MergeBaseSHA : {c.prRow.MergeBaseSHA, "b2"}]

\* the call of DiffCut whose error is not looked at
CommentCreate_DiffCutErrIgnored ==
    /\ cc.pc = "DiffCut"
    /\ \E e \in GitRPCErrors, cut \in DiffCutOutputs(cc) :
         cc' = [cc EXCEPT !.err = e, !.cutErr = e, !.cut = cut,
                          !.act = setAsCodeComment(cc.act, cut, cc.in.Path,
                                                   cc.in.SourceCommitSHA),
                          !.pc = "writeActivity"]
    /\ UNCHANGED <<db, diffCutVars>>

\* the call of c.gitRPCClient.DiffCut, its two error returns and
\* setAsCodeComment
CommentCreate_DiffCut ==
    /\ cc.pc = "DiffCut"
    /\ \E e \in GitRPCErrors :
         LET c == [cc EXCEPT !.err = e, !.cutErr = e]
         IN IF ErrorStatus(e) = "NotFound"
            THEN cc' = CommentCreateReturn(c, << >>,
                                           BadRequest(ErrorMessage(e)))
            ELSE IF e # NoError
            THEN cc' = CommentCreateReturn(c, << >>, e)
            ELSE \E cut \in DiffCutOutputs(cc) :
                   cc' = [c EXCEPT !.cut = cut,
                                   !.act = setAsCodeComment(
                                             cc.act, cut, cc.in.Path,
                                             cc.in.SourceCommitSHA),
                                   !.pc = "writeActivity"]
    /\ UNCHANGED <<db, diffCutVars>>

\* Controller.writeActivity when c.pullreqStore.UpdateActivitySeq returns
\* updErr and c.activityStore.Create returns createErr
writeActivity(c, updErr, createErr) ==
    IF updErr # NoError
    THEN [c EXCEPT !.err = Errorf("failed to get pull request activity number",
                                  updErr)]
    ELSE LET prUpd == [c.prRow EXCEPT !.ActivitySeq = @ + 1]
             act == [c.act EXCEPT !.Order = prUpd.ActivitySeq]
         IN IF createErr # NoError
            THEN [c EXCEPT !.prRow = prUpd, !.act = act,
                           !.err = Errorf("failed to create pull request activity",
                                          createErr)]
            ELSE [c EXCEPT !.prRow = prUpd, !.act = act,
                           !.activities = Append(@, act), !.err = NoError]

\* Controller.writeReplyActivity, in the same way
writeReplyActivity(c, updErr, createErr) ==
    IF updErr # NoError
    THEN [c EXCEPT !.err = Errorf("failed to get pull request activity number",
                                  updErr)]
    ELSE LET parentUpd == [c.parent EXCEPT !.ReplySeq = @ + 1]
             act == [c.act EXCEPT !.Order = parentUpd.Order,
                                  !.SubOrder = parentUpd.ReplySeq]
         IN IF createErr # NoError
            THEN [c EXCEPT !.parent = parentUpd, !.act = act,
                           !.err = Errorf("failed to create pull request activity",
                                          createErr)]
            ELSE [c EXCEPT !.parent = parentUpd, !.act = act,
                           !.activities = Append(@, act), !.err = NoError]

\* the check of err after the switch
AfterSwitch(c) ==
    IF c.err # NoError
    THEN CommentCreateReturn(c, << >>, Errorf("failed to create comment", c.err))
    ELSE [c EXCEPT !.pc = "UpdateOptLock"]

\* the code comment needs a migration
NeedsMigrate(c) ==
    \/ c.in.SourceCommitSHA # c.cut.LatestSourceSHA
    \/ c.prRow.MergeBaseSHA # c.cut.MergeBaseSHA

\* c.writeActivity of a code comment or of a plain comment
CommentCreate_writeActivity ==
    /\ cc.pc = "writeActivity"
    /\ \E updErr \in {NoError, <<"ErrUpdateActivitySeq">>},
          createErr \in {NoError, <<"ErrCreate">>} :
         LET c == writeActivity(cc, updErr, createErr)
         IN cc' = IF IsCodeComment(c.in) /\ c.err = NoError /\ NeedsMigrate(c)
                  THEN [c EXCEPT !.pc = "UpdateAll"]
                  ELSE AfterSwitch(c)
    /\ UNCHANGED <<db, diffCutVars>>

\* the migration of the code comment; an error of UpdateAll is logged
CommentCreate_UpdateAll ==
    /\ cc.pc = "UpdateAll"
    /\ \E errMigrateUpdate \in {NoError, <<"ErrUpdateAll">>} :
         cc' = AfterSwitch([cc EXCEPT !.migrated = TRUE])
    /\ UNCHANGED <<db, diffCutVars>>

\* Controller.checkIsReplyable: c.activityStore.Find gives an error or the
\* parent activity, which is of this pull request or not, replyable or not
CommentCreate_checkIsReplyable ==
    /\ cc.pc = "checkIsReplyable"
    /\ \/ \E e \in {BadRequest("Parent pull request activity not found."),
                    Errorf("failed to find parent pull request activity",
                           <<"ErrFind">>)} :
            cc' = CommentCreateReturn([cc EXCEPT !.err = e], << >>, e)
       \/ \E samePullReq \in BOOLEAN, replyable \in BOOLEAN,
             order \in {1}, replySeq \in {0, 1} :
            LET e == IF ~samePullReq
                     THEN BadRequest("Parent pull request activity doesn't belong to the same pull request.")
                     ELSE IF ~replyable
                     THEN BadRequest("Can't create a reply to the specified entry.")
                     ELSE NoError
                parentAct == [Order |-> order, ReplySeq |-> replySeq,
                              Kind |-> "comment"]
            IN cc' = IF e # NoError
                     THEN CommentCreateReturn([cc EXCEPT !.err = e], << >>, e)
                     ELSE [cc EXCEPT !.parent = parentAct,
                                     !.act.ParentID = cc.in.ParentID,
                                     !.act.Kind = parentAct.Kind,
                                     !.pc = "writeReplyActivity"]
    /\ UNCHANGED <<db, diffCutVars>>

CommentCreate_writeReplyActivity ==
    /\ cc.pc = "writeReplyActivity"
    /\ \E updErr \in {NoError, <<"ErrUpdateReplySeq">>},
          createErr \in {NoError, <<"ErrCreate">>} :
         cc' = AfterSwitch(writeReplyActivity(cc, updErr, createErr))
    /\ UNCHANGED <<db, diffCutVars>>

\* c.pullreqStore.UpdateOptLock with pr.CommentCount++; its error is logged
CommentCreate_UpdateOptLock ==
    /\ cc.pc = "UpdateOptLock"
    /\ \E e \in {NoError, <<"ErrUpdateOptLock">>} :
         LET c == IF e = NoError
                  THEN [cc EXCEPT !.prRow.CommentCount = @ + 1]
                  ELSE [cc EXCEPT !.countErr = e]
         IN cc' = CommentCreateReturn([c EXCEPT !.err = e], <<c.act>>,
                                      NoError)
    /\ UNCHANGED <<db, diffCutVars>>

NextCommentCreate ==
    \/ CommentCreate_getRepoCheckAccess
    \/ CommentCreate_FindByNumber
    \/ CommentCreate_Validate
    \/ CommentCreate_DiffCut
    \/ CommentCreate_writeActivity
    \/ CommentCreate_UpdateAll
    \/ CommentCreate_checkIsReplyable
    \/ CommentCreate_writeReplyActivity
    \/ CommentCreate_UpdateOptLock

SpecCommentCreate == InitCommentCreate /\ [][NextCommentCreate]_vars

\* ------------------------------------------------------------ the claims
Returned == pc = "done"
Succeeded == pc = "done" /\ ret.err = ErrNil

\* the lines of the stream after the hunk header
C == Content(stream)

\* C1 as stated: when DiffCut succeeds, the cut holds at most LineLimit lines
C1_CutWithinLimit == Succeeded => Len(diffCut) <= params.LineLimit

\* C1 as amended: the cut never holds more than LineLimit + 1 lines
C1_CutWithinLimitPlusOne == Len(diffCut) <= params.LineLimit + 1

C1_Witness ==
    Succeeded /\ params.LineLimit = 1 /\ Len(diffCut) = 2 /\ brk = "limit"

\* C2: the line that takes the cut past LineLimit is the last line of the cut
\* and is counted in the spans of the exact window, the scan loop has stopped
\* with it, the cut holds at most LineLimit + 1 lines, and exactly one line
\* once a line entered the cut when LineLimit is 0
C2_OffByPolicy ==
    /\ Len(diffCut) <= params.LineLimit + 1
    /\ Len(diffCut) > params.LineLimit => pc # "scanLoop" /\ brk = "limit"
    /\ brk = "limit" =>
         /\ Len(diffCut) = params.LineLimit + 1
         /\ diffCut[Len(diffCut)] = C[Len(pushed) + Len(diffCut)]
    /\ diffCutHeader.OldSpan = NonAdded(diffCut)
    /\ diffCutHeader.NewSpan = NonRemoved(diffCut)
    /\ inCut /\ params.LineLimit = 0 => Len(diffCut) = 1

C2_Witness ==
    /\ Succeeded /\ brk = "limit" /\ params.LineLimit = 0
    /\ Len(diffCut) = 1 /\ diffCutHeader.OldSpan + diffCutHeader.NewSpan = 1

\* C3: when DiffCut succeeds, OldSpan of the returned hunk is the number of
\* its lines that do not start with '+', NewSpan the number that do not start
\* with '-'
C3_SpanReconciliation ==
    Succeeded =>
      /\ ret.hunk.HunkHeader.OldSpan = NonAdded(ret.hunk.Lines)
      /\ ret.hunk.HunkHeader.NewSpan = NonRemoved(ret.hunk.Lines)

C3_Witness ==
    /\ Succeeded /\ Len(ret.hunk.Lines) = 3
    /\ Len(linesAfter) = 1 /\ Len(lines(linesBeforeBuf)) = 1
    /\ ret.hunk.HunkHeader.OldSpan # ret.hunk.HunkHeader.NewSpan

\* the index in q of its first element equal to l, 0 if there is none
IndexOf(q, l) ==
    LET I == {i \in 1..Len(q) : q[i] = l}
    IN IF I = {} THEN 0 ELSE CHOOSE i \in I : \A j \in I : i <= j

\* the index in the content of the first line of the cut
FirstCutAt == IndexOf(C, diffCut[1])

\* C4: the header returned first has the old and new line numbers of the
\* first cut line (the hunk header's plus the lines before it that count in
\* that numbering) and the spans of the cut lines alone, whatever context is
\* around the cut
C4_ExactHeader ==
    Succeeded =>
      LET i == FirstCutAt
          before == SubSeq(C, 1, i - 1)
      IN /\ i > 0
         /\ ret.diffCutHeader =
              [OldLine |-> hunkHeader.OldLine + NonAdded(before),
               OldSpan |-> NonAdded(diffCut),
               NewLine |-> hunkHeader.NewLine + NonRemoved(before),
               NewSpan |-> NonRemoved(diffCut)]

C4_Witness ==
    /\ Succeeded /\ FirstCutAt = 2 /\ Len(linesAfter) = 1
    /\ params.BeforeLines = 1
    /\ ret.diffCutHeader # ret.hunk.HunkHeader
    /\ ret.diffCutHeader.OldLine # ret.diffCutHeader.NewLine

\* the last n elements of the sequence q
LastN(q, n) == SubSeq(q, Len(q) - n + 1, Len(q))

Min(a, b) == IF a <= b THEN a ELSE b

\* C5: after m pushes the buffer of capacity k gives the last min(m, k) pushed
\* lines, oldest first
C5_RingBuffer ==
    LET k == linesBeforeBuf.cap
        m == Len(pushed)
        got == lines(linesBeforeBuf)
    IN /\ got = LastN(pushed, Min(m, k))
       /\ Len(got) = Min(m, k)
       /\ k = 0 => linesBeforeBuf = newStrCircBuf(0)

C5_Witness ==
    /\ linesBeforeBuf.cap = 2 /\ Len(pushed) = 3
    /\ lines(linesBeforeBuf) = <<pushed[2], pushed[3]>>

\* the local variables at the head of the scan loop, after hunk header h
FirstLocals(h, p) ==
    [currentOldLine |-> h.OldLine, currentNewLine |-> h.NewLine,
     inCut |-> FALSE, diffCutHeader |-> ZeroHeader, diffCut |-> << >>,
     linesBeforeBuf |-> newStrCircBuf(p.BeforeLines), err |-> ErrNil,
     linesAfter |-> << >>, pc |-> "scanLoop", ret |-> ReturnErr(ErrNil),
     pushed |-> << >>, brk |-> ""]

\* the scan loop run from locals s with params p on the lines q[i], q[i + 1],
\* ..., and the end of the stream after them
RECURSIVE RunScan(_, _, _, _)
RunScan(s, p, q, i) ==
    IF s.pc # "scanLoop" THEN s
    ELSE IF RangeExceeded(s, p) THEN AfterLoop([s EXCEPT !.brk = "range"])
    ELSE RunScan(LoopBody(s, p,
                          IF i <= Len(q)
                          THEN [ok |-> TRUE, text |-> q[i], err |-> ErrNil]
                          ELSE [ok |-> FALSE, text |-> << >>, err |-> ErrNil]),
                 p, q, i + 1)

\* the first line of the cut that DiffCut makes of the content q after hunk
\* header h with params p; the empty line if no line enters the cut
FirstCutLine(h, p, q) ==
    LET s == RunScan(FirstLocals(h, p), p, q, 1)
    IN IF s.inCut THEN s.diffCut[1] ELSE << >>

\* C6 as stated: for a content line with old number o and new number n, the
\* start bound o in old numbering and the start bound n in new numbering (the
\* other params equal) start the cut at the same line
C6_OldNewIndependence ==
    \A k \in 1..Len(C) :
      (\A j \in 1..k : C[j] # << >> /\ C[j][1] \in Actions) =>
        LET o == hunkHeader.OldLine + NonAdded(SubSeq(C, 1, k - 1))
            n == hunkHeader.NewLine + NonRemoved(SubSeq(C, 1, k - 1))
        IN FirstCutLine(hunkHeader,
                        [params EXCEPT !.LineStart = o, !.LineStartNew = FALSE], C)
             = FirstCutLine(hunkHeader,
                            [params EXCEPT !.LineStart = n, !.LineStartNew = TRUE], C)

\* C7: when the scan loop was reached, no read failed and no line entered the
\* cut, DiffCut returns ErrHunkNotFound and nothing else, however the loop
\* ended and whatever the buffer of lines before the window holds
C7_NotFoundWithoutCut ==
    Returned /\ HunkHeaderAt(stream) > 0 /\ scanErr = ErrNil /\ ~inCut =>
      /\ ret = ReturnErr(ErrHunkNotFound)
      /\ linesAfter = << >>

C7_Witness ==
    /\ Returned /\ ~inCut /\ brk = "eof" /\ scanErr = ErrNil
    /\ Len(lines(linesBeforeBuf)) = 2
    /\ ret.err = ErrHunkNotFound

\* C8: the file header is searched first and the hunk header only after it:
\* the hunk header used is the first one after the first file header, lines
\* are classified only after both were found, and DiffCut returns
\* ErrHunkNotFound when the stream ends before that
C8_HeaderOrder ==
    LET f == FileHeaderAt(stream)
        h == HunkHeaderAt(stream)
    IN /\ pc = "scanFileHeader" => f = 0
       /\ pc = "scanHunkHeader" => f > 0 /\ h = 0
       /\ pc \in {"scanLoop", "linesAfter"} => h > 0
       /\ h > 0 => hunkHeader = ParseDiffHunkHeader(stream[h]).h
       /\ h = 0 =>
            /\ hunkHeader = ZeroHeader /\ currentOldLine = 0 /\ currentNewLine = 0
            /\ pushed = << >> /\ diffCut = << >> /\ linesAfter = << >> /\ ~inCut
            /\ Returned /\ scanErr = ErrNil => ret = ReturnErr(ErrHunkNotFound)

C8_Witness ==
    /\ pc = "scanLoop" /\ Len(stream) = 4 /\ FileHeaderAt(stream) = 2
    /\ ParseDiffHunkHeader(stream[1]).ok /\ HunkHeaderAt(stream) = 3
    /\ pushed # << >>

\* C9: a read failure of the stream is what DiffCut returns, in every phase,
\* and DiffCut returns as soon as it occurs
C9_ReadFailure ==
    scanErr # ErrNil => Returned /\ ret = ReturnErr(scanErr)

C9_Witness ==
    /\ Returned /\ scanErr = ErrRead /\ ret.err = ErrRead
    /\ inCut /\ brk = "range" /\ params.AfterLines = 1 /\ linesAfter = << >>

\* C10: DiffCut returns either an error with a zero header and a zero hunk, or
\* no error with a hunk of at least one line and its reconciled header
C10_NoPartialSuccess ==
    Returned =>
      IF ret.err # ErrNil
      THEN ret.diffCutHeader = ZeroHeader /\ ret.hunk = ZeroHunk
      ELSE /\ Len(ret.hunk.Lines) >= 1
           /\ ret.hunk.HunkHeader.OldSpan = NonAdded(ret.hunk.Lines)
           /\ ret.hunk.HunkHeader.NewSpan = NonRemoved(ret.hunk.Lines)
           /\ ret.hunk.HunkHeader.OldLine =
                ret.diffCutHeader.OldLine - NonAdded(lines(linesBeforeBuf))
           /\ ret.hunk.HunkHeader.NewLine =
                ret.diffCutHeader.NewLine - NonRemoved(lines(linesBeforeBuf))

C10_Witness ==
    /\ Returned /\ ret.err = ErrHunkNotFound /\ inCut /\ diffCut # << >>
    /\ lines(linesBeforeBuf) # << >>
    /\ ret.hunk = ZeroHunk

\* the scan loop has read the blank line: it is the last line of the stream
\* and no break ahead of the trailing-context loop has ended the scan loop
BlankInScanLoop ==
    /\ brk \notin {"range", "limit"}
    /\ stream # << >> /\ stream[Len(stream)] = << >>
    /\ C # << >>

C12_AfterOnlyByGuard ==
    Succeeded /\ brk # "range" =>
      /\ linesAfter = << >>
      /\ ret.hunk.Lines = lines(linesBeforeBuf) \o diffCut

\* C13 as stated: every line of the returned hunk is non-empty and starts
\* with ' ', '-' or '+'
C13_OnlyContentLines ==
    Succeeded =>
      \A i \in 1..Len(ret.hunk.Lines) :
        ret.hunk.Lines[i] # << >> /\ ret.hunk.Lines[i][1] \in Actions

\* C14: when the safety break ended the scan loop and no read failed, DiffCut
\* returns no error, the cut of LineLimit + 1 lines within the returned
\* lines, and the spans of those cut lines in the header it returns first
C14_TruncationNotError ==
    Returned /\ brk = "limit" /\ scanErr = ErrNil =>
      /\ ret.err = ErrNil
      /\ Len(diffCut) = params.LineLimit + 1
      /\ SubSeq(ret.hunk.Lines, Len(lines(linesBeforeBuf)) + 1,
                Len(lines(linesBeforeBuf)) + Len(diffCut)) = diffCut
      /\ ret.diffCutHeader.OldSpan = NonAdded(diffCut)
      /\ ret.diffCutHeader.NewSpan = NonRemoved(diffCut)

\* the safety break cut the window short: the line after the cut is a
\* content line still within the requested range
C14_Witness ==
    /\ Succeeded /\ brk = "limit" /\ params.LineLimit = 0
    /\ params.LineStart = 1 /\ params.LineEnd = 2
    /\ ~params.LineStartNew /\ ~params.LineEndNew
    /\ params.AfterLines = 1 /\ Len(linesAfter) = 1
    /\ diffCut = <<C[1]>> /\ linesAfter = <<C[2]>>
    /\ C[1][1] = actionUnchanged /\ C[2][1] = actionUnchanged
    /\ ret.diffCutHeader.OldSpan = 1

\* the result the scenario names: the exact window is the removed line "-b",
\* the lines are " a", "-b", "+c", the reconciled header starts at line 5
ScenarioResult ==
    /\ ret.err = ErrNil
    /\ ret.diffCutHeader = [OldLine |-> 6, OldSpan |-> 1, NewLine |-> 6, NewSpan |-> 0]
    /\ ret.hunk.Lines = <<<<32, 97>>, <<45, 98>>, <<43, 99>>>>
    /\ ret.hunk.HunkHeader.OldLine = 5
    /\ ret.hunk.HunkHeader.NewLine = 5

\* C15 as stated: in the scenario, LineStart = 2 and LineEnd = 2 give that
\* result
C15_ScenarioLines2 ==
    Returned /\ params.LineStart = 2 /\ params.LineEnd = 2 => ScenarioResult

\* C15 as amended: in the scenario, LineStart = 6 and LineEnd = 6 (the old
\* line number of "-b") give that result; LineStart = 2 and LineEnd = 2 give
\* ErrHunkNotFound
C15_ScenarioLines6 ==
    /\ Returned /\ params.LineStart = 6 /\ params.LineEnd = 6 => ScenarioResult
    /\ Returned /\ params.LineStart = 2 /\ params.LineEnd = 2 =>
         ret = ReturnErr(ErrHunkNotFound)

C15_Witness ==
    /\ Returned /\ params.LineStart = 6 /\ params.LineEnd = 6
    /\ reader = TextReader(ScenarioText, ErrNil) /\ Len(stream) = 5
    /\ brk = "range" /\ linesAfter = <<<<43, 99>>>>
    /\ ret.hunk.HunkHeader = [OldLine |-> 5, OldSpan |-> 2, NewLine |-> 5, NewSpan |-> 2]

FirstLineAt == IndexOf(C, ret.hunk.Lines[1])

\* C17: when DiffCut succeeds, OldLine and NewLine of the returned hunk's
\* header are the old and new line numbers of its first line: those of the
\* stream's hunk header plus the number of content lines before that line
\* that are not added, and not removed; the lines after the cut do not enter
\* them
C17_ReconciledStart ==
    Succeeded =>
      LET i == FirstLineAt
          before == SubSeq(C, 1, i - 1)
      IN /\ i > 0
         /\ ret.hunk.HunkHeader.OldLine = hunkHeader.OldLine + NonAdded(before)
         /\ ret.hunk.HunkHeader.NewLine = hunkHeader.NewLine + NonRemoved(before)
         /\ ret.hunk.Lines[Len(ret.hunk.Lines) - Len(linesAfter)] =
              diffCut[Len(diffCut)]

C17_Witness ==
    /\ Succeeded /\ FirstLineAt = 2 /\ Len(pushed) = 2
    /\ params.BeforeLines = 1
    /\ ret.hunk.HunkHeader.OldLine # ret.hunk.HunkHeader.NewLine
    /\ ret.hunk.HunkHeader.OldLine # ret.diffCutHeader.OldLine

\* the counter LineStart is compared with, and the one LineEnd is
StartCounter == IF params.LineStartNew THEN currentNewLine ELSE currentOldLine
EndCounter == IF params.LineEndNew THEN currentNewLine ELSE currentOldLine

\* C18: a line is appended to the cut only when, as it is read, the start
\* counter is at least LineStart and the end counter at most LineEnd; a line
\* is pushed to the buffer only when the start counter is below LineStart;
\* the scan loop reads no line when the end counter is above LineEnd
C18_WindowMembership ==
    [][/\ diffCut' # diffCut =>
            StartCounter >= params.LineStart /\ EndCounter <= params.LineEnd
       /\ pushed' # pushed => StartCounter < params.LineStart
       /\ pc = "scanLoop" /\ stream' # stream => EndCounter <= params.LineEnd]_vars

C18_Witness ==
    /\ brk = "range" /\ Len(pushed) = 2 /\ Len(diffCut) = 1
    /\ EndCounter = params.LineEnd + 1
    /\ currentOldLine # currentNewLine

\* the phase of the invocation: 1 while the scan loop seeks the start of the
\* window, 2 once a line is in the cut, 3 in the trailing-context loop
Phase ==
    IF pc = "scanLoop" THEN (IF inCut THEN 2 ELSE 1)
    ELSE IF pc = "linesAfter" THEN 3
    ELSE IF pc = "done" THEN 4 ELSE 0

\* C19: the phases follow one another in one direction; once a line is in
\* the cut no line is pushed to the buffer; in the trailing-context loop no
\* line is appended to the cut or pushed to the buffer, and only there are
\* lines appended to the lines after
C19_PhaseOrder ==
    [][/\ Phase' >= Phase
       /\ diffCut # << >> =>
            pushed' = pushed /\ linesBeforeBuf' = linesBeforeBuf
       /\ pc = "linesAfter" =>
            diffCut' = diffCut /\ pushed' = pushed
              /\ linesBeforeBuf' = linesBeforeBuf
       /\ linesAfter' # linesAfter => pc = "linesAfter"]_vars

C19_Witness ==
    /\ Returned /\ Phase = 4 /\ ret.err = ErrNil
    /\ Len(pushed) = 1 /\ Len(diffCut) = 1 /\ Len(linesAfter) = 1
    /\ C = pushed \o diffCut \o linesAfter

\* C20: at the head of the scan loop currentOldLine is the hunk header's
\* OldLine plus the number of lines read after it that are not added, and
\* currentNewLine its NewLine plus the number that are not removed; no step
\* decreases a counter; a line the scan loop goes on after advances both
\* counters if unchanged, the old one alone if removed, the new one alone if
\* added
C20_Counters ==
    [][/\ currentOldLine' >= currentOldLine
       /\ currentNewLine' >= currentNewLine
       /\ pc' = "scanLoop" =>
            LET c == Content(stream')
            IN /\ currentOldLine' = hunkHeader'.OldLine + NonAdded(c)
               /\ currentNewLine' = hunkHeader'.NewLine + NonRemoved(c)
       /\ pc = "scanLoop" /\ pc' = "scanLoop" =>
            LET a == stream'[Len(stream')][1]
            IN /\ currentOldLine' - currentOldLine =
                    (IF a = actionAdded THEN 0 ELSE 1)
               /\ currentNewLine' - currentNewLine =
                    (IF a = actionRemoved THEN 0 ELSE 1)]_vars

C20_Witness ==
    /\ pc = "scanLoop" /\ Len(C) = 3
    /\ {C[i][1] : i \in 1..3} = Actions
    /\ currentOldLine = hunkHeader.OldLine + 2
    /\ currentNewLine = hunkHeader.NewLine + 2

\* C21: when DiffCut succeeds, the returned lines are the lines before the
\* window, the cut and the lines after, and are consecutive lines of the
\* content in the order of the stream; the lines before are the last
\* min(BeforeLines, p) of the p content lines ahead of the first cut line, and
\* the first line after is the content line that follows the last cut line
C21_ContiguousLines ==
    Succeeded =>
      LET i == FirstCutAt
          p == i - 1
          k == Min(params.BeforeLines, p)
          got == ret.hunk.Lines
      IN /\ got = lines(linesBeforeBuf) \o diffCut \o linesAfter
         /\ got = SubSeq(C, i - k, i - k + Len(got) - 1)
         /\ lines(linesBeforeBuf) = SubSeq(C, i - k, i - 1)
         /\ diffCut = SubSeq(C, i, i + Len(diffCut) - 1)
         /\ linesAfter # << >> => linesAfter[1] = C[i + Len(diffCut)]

C21_Witness ==
    /\ Succeeded /\ FirstCutAt = 3 /\ params.BeforeLines = 1
    /\ ret.hunk.Lines = <<C[2], C[3]>>

\* C22: in every state the ring buffer holds at most BeforeLines lines and
\* the lines after the cut are at most AfterLines, however many lines were
\* pushed
C22_BoundedBuffering ==
    /\ Len(linesBeforeBuf.entries) <= params.BeforeLines
    /\ Len(lines(linesBeforeBuf)) <= params.BeforeLines
    /\ Len(linesAfter) <= params.AfterLines

C22_Witness ==
    /\ Len(pushed) = 3 /\ params.BeforeLines = 1
    /\ Len(linesBeforeBuf.entries) = 1

\* the scan loop has read a non-empty line that starts with none of ' ',
\* '-', '+': it is the last line of the stream and no break ahead of the
\* trailing-context loop has ended the scan loop
OtherInScanLoop ==
    /\ brk \notin {"range", "limit"}
    /\ stream # << >> /\ stream[Len(stream)] # << >>
    /\ LET c == C
       IN c # << >> /\ c[Len(c)][1] \notin Actions

\* C23: a non-empty line with another first byte read by the scan loop is
\* neither pushed nor appended to the cut nor counted in a span or a counter,
\* and ends the loop as the end of the stream does: with a line in the cut
\* DiffCut succeeds without lines after the cut, else it returns
\* ErrHunkNotFound
C23_UnrecognizedLineEndsLoop ==
    OtherInScanLoop =>
      LET l == C[Len(C)]
          read == SubSeq(C, 1, Len(C) - 1)
      IN /\ Returned /\ brk = "eof" /\ err = ErrEOF
         /\ read = pushed \o diffCut
         /\ \A i \in 1..Len(lines(linesBeforeBuf)) : lines(linesBeforeBuf)[i] # l
         /\ currentOldLine = hunkHeader.OldLine + NonAdded(read)
         /\ currentNewLine = hunkHeader.NewLine + NonRemoved(read)
         /\ diffCutHeader.OldSpan = NonAdded(diffCut)
         /\ diffCutHeader.NewSpan = NonRemoved(diffCut)
         /\ linesAfter = << >>
         /\ IF inCut
            THEN /\ ret.err = ErrNil
                 /\ ret.hunk.Lines = lines(linesBeforeBuf) \o diffCut
                 /\ ret.hunk.HunkHeader.OldSpan = NonAdded(ret.hunk.Lines)
                 /\ ret.hunk.HunkHeader.NewSpan = NonRemoved(ret.hunk.Lines)
            ELSE ret = ReturnErr(ErrHunkNotFound)

C23_Witness ==
    /\ OtherInScanLoop /\ Succeeded /\ Len(C) = 3
    /\ Len(pushed) = 1 /\ Len(diffCut) = 1 /\ params.AfterLines = 1

\* this step reads one more line of the stream
ConsumesLine ==
    /\ Len(stream') = Len(stream) + 1
    /\ SubSeq(stream', 1, Len(stream)) = stream

\* C24: DiffCut eventually returns; every step of its loops reads one more
\* line of the stream or leaves its loop, and the lines read are never taken
\* back or read again
C24_Termination ==
    /\ <>Returned
    /\ [][/\ ConsumesLine \/ pc' # pc
          /\ stream' # stream => ConsumesLine
          /\ Returned => Returned']_vars

C24_Witness ==
    /\ Returned /\ reader.fixed /\ stream = reader.text
    /\ Len(stream) = Len(ScenarioText) + 2
    /\ Len(pushed) = 2 /\ Len(diffCut) = 3 /\ brk = "eof"
    /\ scanErr = ErrNil /\ ret.err = ErrNil

\* C25: c.git.DeleteBranch is called only when the access check, the rule
\* fetching and the rule verification returned no error, branchName is not
\* the default branch, dryRunRules is false and the violations are not
\* critical; otherwise DeleteBranch returns with no branch deleted: for the
\* default branch ErrDefaultBranchCantBeDeleted, for a dry run the violations
\* with DryRunRules true
C25_DeleteOnlyWhenAllowed ==
    LET allowed ==
          /\ db.accessErr = "nil" /\ db.branchName # db.DefaultBranch
          /\ db.rulesErr = "nil" /\ db.verifyErr = "nil"
          /\ ~db.dryRunRules /\ db.critical = "false"
    IN /\ db.deleteCalls > 0 => allowed
       /\ db.pc = "git.DeleteBranch" => allowed
       /\ db.branches # Branches =>
            db.deleteCalls = 1 /\ db.branches = Branches \ {db.branchName}
       /\ db.pc = "done" /\ ~allowed =>
            db.deleteCalls = 0 /\ db.branches = Branches
       /\ db.pc = "done" /\ db.accessErr = "nil"
            /\ db.branchName = db.DefaultBranch =>
            db.ret = [out |-> ZeroDeleteBranchOutput, violations |-> << >>,
                      err |-> "ErrDefaultBranchCantBeDeleted"]
       /\ db.pc = "done" /\ db.verifyErr = "nil" /\ db.dryRunRules =>
            db.ret = [out |-> [DryRunRules |-> TRUE,
                               RuleViolations |-> db.violations],
                      violations |-> << >>, err |-> "nil"]

C25_Witness ==
    /\ db.pc = "done" /\ db.deleteCalls = 1 /\ db.ret.err = "nil"
    /\ db.branches = {db.DefaultBranch} /\ db.bypassRules
    /\ db.violations # << >> /\ db.critical = "false"
    /\ db.ret.out.RuleViolations = db.violations

\* C26: in CommentCreate, when in.Validate fails or the call of DiffCut
\* fails, nothing is written: no activity is created, the activity sequence
\* and the comment counter of the pull request stay what they were, and the
\* call returns no activity with the validation error, with a BadRequest
\* carrying the message of a NotFound status, or with any other DiffCut error
\* as it is; the comment counter grows, by one, only once the activity is
\* written with its order the advanced activity sequence and err is nil; and
\* when the increment fails the call still returns the activity and no error.
C26_NoWriteOnFailure ==
    cc.pc # "idle" =>
      /\ cc.errValidate # NoError \/ cc.cutErr # NoError =>
           /\ cc.pc = "done"
           /\ cc.activities = << >>
           /\ cc.prRow = cc.pr0
           /\ cc.ret.act = << >>
           /\ cc.ret.err = IF cc.errValidate # NoError THEN cc.errValidate
                           ELSE IF cc.cutErr[1] = "NotFound"
                           THEN <<"BadRequest", cc.cutErr[2]>>
                           ELSE cc.cutErr
      /\ cc.errValidate # NoError =>
           /\ cc.errValidate[1] = "BadRequest"
           /\ cc.in.SourceCommitSHA # "" \/ cc.in.TargetCommitSHA # ""
      /\ cc.cutErr # NoError => IsCodeComment(cc.in)
      /\ cc.prRow.CommentCount # cc.pr0.CommentCount =>
           /\ cc.prRow.CommentCount = cc.pr0.CommentCount + 1
           /\ cc.pc = "done" /\ cc.err = NoError /\ cc.countErr = NoError
           /\ cc.activities = <<cc.act>>
           /\ cc.ret = [act |-> <<cc.act>>, err |-> NoError]
           /\ IsCodeComment(cc.in) =>
                /\ cc.prRow.ActivitySeq = cc.pr0.ActivitySeq + 1
                /\ cc.act.Order = cc.prRow.ActivitySeq
                /\ cc.act.Type = "code-comment"
      /\ cc.countErr # NoError =>
           /\ cc.pc = "done"
           /\ cc.prRow.CommentCount = cc.pr0.CommentCount
           /\ cc.activities = <<cc.act>>
           /\ cc.ret = [act |-> <<cc.act>>, err |-> NoError]

\* a code comment whose DiffCut call failed with the NotFound status
C26_Witness ==
    /\ cc.pc = "done" /\ IsCodeComment(cc.in)
    /\ cc.errValidate = NoError
    /\ cc.cutErr = <<"NotFound", "hunk not found">>
    /\ cc.ret = [act |-> << >>, err |-> <<"BadRequest", "hunk not found">>]
    /\ cc.pr0.ActivitySeq = 1 /\ cc.pr0.CommentCount = 1
    /\ cc.prRow = cc.pr0 /\ cc.activities = << >>
====
